---- MODULE Spec2Model ----
(***************************************************************************)
(* A model of ToPprof, the encoder that turns the CPU samples of a parsed  *)
(* execution trace into a pprof profile with per-sample breakdowns.        *)
(*                                                                         *)
(* The output is modelled at the level of protobuf records: buf is the     *)
(* sequence of top-level records appended so far, each a record with its   *)
(* field number and the values a reader decodes from it (a scalar the      *)
(* stream leaves out because it is zero decodes to zero).  Go maps are     *)
(* functions; a range over a map visits every key once, in an order the    *)
(* language leaves unspecified, so a range may take the keys in any order. *)
(* Strings are TLA+ strings and + on them is \o, so two different pairs of *)
(* strings can concatenate to one string, as in Go.                        *)
(***************************************************************************)
EXTENDS Integers, Sequences, FiniteSets, TLC

VARIABLES
    Events,       \* parsed.Events
    Stacks,       \* parsed.Stacks
    start, stop,  \* the two timestamps, in nanoseconds
    pc,           \* the statement of ToPprof about to run
    ei,           \* number of events the aggregation loop has consumed
    info,         \* map[uint64]*PprofInfo
    labelSetIDs,  \* map[string]*LabelSet
    labelSets,    \* []*LabelSet
    strtab,       \* StrTab
    functions,    \* map[string]uint64
    locs,         \* map[uint64]struct{}
    li,           \* number of label sets the LabelSet loop has written
    rest,         \* keys the running map range has not visited yet
    buf,          \* records appended to buf / b so far
    out,          \* what out.Write received
    nGet,         \* number of calls of StrTab.Get so far
    order,        \* keys in the order the map ranges of this call visited them
    run,          \* which call of ToPprof this is
    prevOut,      \* the artifact of the previous call
    prevOrder     \* the order of the previous call

vars == <<Events, Stacks, start, stop, pc, ei, info, labelSetIDs, labelSets,
          strtab, functions, locs, li, rest, buf, out, nGet, order, run,
          prevOut, prevOrder>>

inputs == <<Events, Stacks, start, stop>>

----------------------------------------------------------------------------
(* Bounds of the model *)

MaxEvents == 3        \* longest event stream of the aggregation specification
MaxEncEvents == 2     \* longest event stream of the whole-encoder specification
WordBits == 4         \* width of int / uint64, scaled down

----------------------------------------------------------------------------
(* Helpers *)

EmptyMap == <<>>

Range(s) == {s[i] : i \in DOMAIN s}

SeqsUpTo(S, n) == UNION {[1..m -> S] : m \in 0..n}

RECURSIVE SumSeq(_)
SumSeq(s) == IF s = <<>> THEN 0 ELSE Head(s) + SumSeq(Tail(s))

----------------------------------------------------------------------------
(* strconv.Itoa(int(event.G)) *)

Digit(d) == CASE d = 0 -> "0" [] d = 1 -> "1" [] d = 2 -> "2" [] d = 3 -> "3"
              [] d = 4 -> "4" [] d = 5 -> "5" [] d = 6 -> "6" [] d = 7 -> "7"
              [] d = 8 -> "8" [] d = 9 -> "9"

RECURSIVE Decimal(_)
Decimal(n) == IF n < 10 THEN Digit(n) ELSE Decimal(n \div 10) \o Digit(n % 10)

ItoaNoSign(n) == IF n < 0 THEN Decimal(-n) ELSE Decimal(n)

Itoa(n) == IF n < 0 THEN "-" \o Decimal(-n) ELSE Decimal(n)

\* int(x) of a uint64 x: the same bits read as a signed integer
IntOfUint(x) == IF x >= 2^(WordBits - 1) THEN x - 2^WordBits ELSE x

----------------------------------------------------------------------------
(* StrTab.Get: the id of s and the table after the call *)

Get(t, s) ==
    IF s \in DOMAIN t
    THEN [id |-> t[s], tab |-> t]
    ELSE [id |-> Cardinality(DOMAIN t),
          tab |-> t @@ (s :> Cardinality(DOMAIN t))]

----------------------------------------------------------------------------
(* The aggregation loop *)

EvCPUSample == "EvCPUSample"
EvGoStart == "EvGoStart"

NewPprofInfo ==
    [Value |-> 0,
     Breakdown |-> [Timestamps |-> <<>>, Values |-> <<>>, LabelSets |-> <<>>]]

Labels(event) == <<"thread_id:", Itoa(IntOfUint(event.G))>>

RECURSIVE ConcatStrings(_)
ConcatStrings(labels) ==
    IF labels = <<>> THEN "" ELSE Head(labels) \o ConcatStrings(Tail(labels))

IsSampleAny(event) == TRUE

IsSample(event) == event.Type = EvCPUSample

\* pp.Value += value and the three appends to pp.Breakdown
AddToBreakdownFront(pp, ts, value, setID) ==
    [Value |-> pp.Value + value,
     Breakdown |->
        [Timestamps |-> <<ts>> \o pp.Breakdown.Timestamps,
         Values |-> <<value>> \o pp.Breakdown.Values,
         LabelSets |-> <<setID>> \o pp.Breakdown.LabelSets]]

AddToBreakdown(pp, ts, value, setID) ==
    [Value |-> pp.Value + value,
     Breakdown |->
        [Timestamps |-> Append(pp.Breakdown.Timestamps, ts),
         Values |-> Append(pp.Breakdown.Values, value),
         LabelSets |-> Append(pp.Breakdown.LabelSets, setID)]]

\* the value of one sample event
SampleValue == 1

\* One iteration of the loop over parsed.Events
AggregateEvent ==
    /\ pc = "aggregate"
    /\ ei < Len(Events)
    /\ LET event == Events[ei + 1]
           pp == IF event.StkID \in DOMAIN info
                 THEN info[event.StkID] ELSE NewPprofInfo
           labels == Labels(event)
           s == ConcatStrings(labels)
           known == s \in DOMAIN labelSetIDs
           set == IF known THEN labelSetIDs[s]
                  ELSE [ID |-> Len(labelSets), Labels |-> labels]
       IN  IF IsSample(event)
           THEN /\ info' = [k \in DOMAIN info \cup {event.StkID} |->
                              IF k = event.StkID
                              THEN AddToBreakdown(pp, event.Ts, SampleValue, set.ID)
                              ELSE info[k]]
                /\ labelSetIDs' = IF known THEN labelSetIDs
                                  ELSE labelSetIDs @@ (s :> set)
                /\ labelSets' = IF known THEN labelSets
                                ELSE Append(labelSets, set)
           ELSE UNCHANGED <<info, labelSetIDs, labelSets>>
    /\ ei' = ei + 1
    /\ UNCHANGED <<inputs, pc, strtab, functions, locs, li, rest, buf, out,
                   nGet, order, run, prevOut, prevOrder>>

----------------------------------------------------------------------------
(* The statements of ToPprof after the aggregation loop, in program order *)

StatementsTableEarly ==
    <<"aggregate", "newBuffer", "valueType", "labelSet", "sample", "mapping",
      "makeFunctions", "function", "makeLocs", "location", "timeNanos",
      "durationNanos", "periodType", "period", "emptyString", "stringTable",
      "tickUnit", "write", "done">>

Statements ==
    <<"aggregate", "newBuffer", "valueType", "labelSet", "sample", "mapping",
      "makeFunctions", "function", "makeLocs", "location", "timeNanos",
      "durationNanos", "periodType", "period", "tickUnit", "emptyString",
      "stringTable", "write", "done">>

After(p) == Statements[(CHOOSE i \in DOMAIN Statements : Statements[i] = p) + 1]

\* the keys a map range starting at statement p has to visit
Keys(p) == CASE p \in {"sample"} -> DOMAIN info
             [] p \in {"function", "location"} -> DOMAIN Stacks
             [] OTHER -> {}

Goto(p) == pc' = p /\ rest' = Keys(p) /\ li' = 0

\* m[k], the zero value when k is no key of m
Lookup(m, k, zero) == IF k \in DOMAIN m THEN m[k] ELSE zero

untouched == <<inputs, ei, info, labelSetIDs, labelSets, out, run, prevOut,
               prevOrder>>

\* buf, strtab and ps are created
NewBuffer ==
    /\ pc = "newBuffer"
    /\ buf' = <<>>
    /\ strtab' = EmptyMap
    /\ Goto(After(pc))
    /\ UNCHANGED <<untouched, functions, locs, nGet, order>>

\* Value type, 1
WriteValueType ==
    /\ pc = "valueType"
    /\ LET t == Get(strtab, "time")
           u == Get(t.tab, "ns")
       IN  /\ buf' = Append(buf, [field |-> 1, type |-> t.id, unit |-> u.id])
           /\ strtab' = u.tab
           /\ nGet' = nGet + 2
    /\ Goto(After(pc))
    /\ UNCHANGED <<untouched, functions, locs, order>>

\* the label pairs of one label set, from position i on
RECURSIVE LabelPairs(_, _, _)
LabelPairs(labels, i, st) ==
    IF i > Len(labels) THEN st
    ELSE LET k == Get(st.strtab, labels[i])
             v == Get(k.tab, labels[i + 1])
         IN  LabelPairs(labels, i + 2,
                        [strtab |-> v.tab,
                         pairs |-> Append(st.pairs, [key |-> k.id, value |-> v.id]),
                         nGet |-> st.nGet + 2])

\* LabelSet, 16: one iteration of the loop over labelSets
WriteLabelSet ==
    /\ pc = "labelSet"
    /\ li < Len(labelSets)
    /\ LET set == labelSets[li + 1]
           st == LabelPairs(set.Labels, 1,
                            [strtab |-> strtab, pairs |-> <<>>, nGet |-> nGet])
       IN  /\ buf' = Append(buf, [field |-> 16, id |-> set.ID, labels |-> st.pairs])
           /\ strtab' = st.strtab
           /\ nGet' = st.nGet
    /\ li' = li + 1
    /\ UNCHANGED <<untouched, pc, rest, functions, locs, order>>

SampleRecord(id) ==
    [field |-> 2,
     locations |-> [i \in DOMAIN Lookup(Stacks, id, <<>>) |->
                       Lookup(Stacks, id, <<>>)[i].PC],
     value |-> info[id].Value,
     breakdown |-> [timestamps |-> info[id].Breakdown.Timestamps,
                    values |-> info[id].Breakdown.Values,
                    labelSets |-> info[id].Breakdown.LabelSets]]

\* Samples, 2: one iteration of the range over info
WriteSample ==
    /\ pc = "sample"
    /\ \E id \in rest :
          /\ buf' = Append(buf, SampleRecord(id))
          /\ rest' = rest \ {id}
          /\ order' = Append(order, id)
    /\ UNCHANGED <<untouched, pc, li, strtab, functions, locs, nGet>>

\* Mapping, 3
WriteMapping ==
    /\ pc = "mapping"
    /\ buf' = Append(buf, [field |-> 3, id |-> 1])
    /\ Goto(After(pc))
    /\ UNCHANGED <<untouched, strtab, functions, locs, nGet, order>>

NewFunctions == EmptyMap

\* functions := make(map[string]uint64)
MakeFunctions ==
    /\ pc = "makeFunctions"
    /\ functions' = NewFunctions
    /\ Goto(After(pc))
    /\ UNCHANGED <<untouched, strtab, locs, buf, nGet, order>>

\* the key a frame's function is deduplicated on
FunctionKey(frame) == frame.Fn \o frame.File

FunctionFrameNameOnly(st, frame) ==
    IF FunctionKey(frame) \in DOMAIN st.functions THEN st
    ELSE LET id == Cardinality(DOMAIN st.functions) + 1
             n == Get(st.strtab, frame.Fn)
         IN  [functions |-> st.functions @@ (FunctionKey(frame) :> id),
              strtab |-> n.tab,
              buf |-> Append(st.buf, [field |-> 5, id |-> id, name |-> n.id,
                                      filename |-> 0]),
              nGet |-> st.nGet + 1]

\* the body of the inner loop of the Function section, for one frame
FunctionFrame(st, frame) ==
    IF FunctionKey(frame) \in DOMAIN st.functions THEN st
    ELSE LET id == Cardinality(DOMAIN st.functions) + 1
             n == Get(st.strtab, frame.Fn)
             f == Get(n.tab, frame.File)
         IN  [functions |-> st.functions @@ (FunctionKey(frame) :> id),
              strtab |-> f.tab,
              buf |-> Append(st.buf, [field |-> 5, id |-> id, name |-> n.id,
                                      filename |-> f.id]),
              nGet |-> st.nGet + 2]

RECURSIVE FunctionFrames(_, _)
FunctionFrames(st, stk) ==
    IF stk = <<>> THEN st
    ELSE FunctionFrames(FunctionFrame(st, Head(stk)), Tail(stk))

\* Function, 5: one iteration of the outer range over parsed.Stacks
WriteFunctions ==
    /\ pc = "function"
    /\ \E k \in rest :
          LET st == FunctionFrames([functions |-> functions, strtab |-> strtab,
                                    buf |-> buf, nGet |-> nGet], Stacks[k])
          IN  /\ functions' = st.functions
              /\ strtab' = st.strtab
              /\ buf' = st.buf
              /\ nGet' = st.nGet
              /\ rest' = rest \ {k}
              /\ order' = Append(order, k)
    /\ UNCHANGED <<untouched, pc, li, locs>>

StaleLocs == locs

NewLocs == {}

\* locs := make(map[uint64]struct{})
MakeLocs ==
    /\ pc = "makeLocs"
    /\ locs' = NewLocs
    /\ Goto(After(pc))
    /\ UNCHANGED <<untouched, strtab, functions, buf, nGet, order>>

LocationFrameNoDedup(st, frame) ==
    [locs |-> st.locs \cup {frame.PC},
     buf |-> Append(st.buf,
                [field |-> 4, id |-> frame.PC, mapping |-> 1,
                 address |-> frame.PC,
                 line |-> [function |-> Lookup(functions, FunctionKey(frame), 0),
                           line |-> frame.Line]])]

\* the body of the inner loop of the Location section, for one frame
LocationFrame(st, frame) ==
    IF frame.PC \in st.locs THEN st
    ELSE [locs |-> st.locs \cup {frame.PC},
          buf |-> Append(st.buf,
                     [field |-> 4, id |-> frame.PC, mapping |-> 1,
                      address |-> frame.PC,
                      line |-> [function |-> Lookup(functions, FunctionKey(frame), 0),
                                line |-> frame.Line]])]

RECURSIVE LocationFrames(_, _)
LocationFrames(st, stk) ==
    IF stk = <<>> THEN st
    ELSE LocationFrames(LocationFrame(st, Head(stk)), Tail(stk))

\* Location, 4: one iteration of the outer range over parsed.Stacks
WriteLocations ==
    /\ pc = "location"
    /\ \E k \in rest :
          LET st == LocationFrames([locs |-> locs, buf |-> buf], Stacks[k])
          IN  /\ locs' = st.locs
              /\ buf' = st.buf
              /\ rest' = rest \ {k}
              /\ order' = Append(order, k)
    /\ UNCHANGED <<untouched, pc, li, strtab, functions, nGet>>

\* Time nanos, 9
WriteTimeNanos ==
    /\ pc = "timeNanos"
    /\ buf' = Append(buf, [field |-> 9, value |-> start])
    /\ Goto(After(pc))
    /\ UNCHANGED <<untouched, strtab, functions, locs, nGet, order>>

\* Duration nanos, 10
WriteDurationNanos ==
    /\ pc = "durationNanos"
    /\ buf' = Append(buf, [field |-> 10, value |-> stop - start])
    /\ Goto(After(pc))
    /\ UNCHANGED <<untouched, strtab, functions, locs, nGet, order>>

\* Period type, 11
WritePeriodType ==
    /\ pc = "periodType"
    /\ LET t == Get(strtab, "time")
           u == Get(t.tab, "ns")
       IN  /\ buf' = Append(buf, [field |-> 11, type |-> t.id, unit |-> u.id])
           /\ strtab' = u.tab
           /\ nGet' = nGet + 2
    /\ Goto(After(pc))
    /\ UNCHANGED <<untouched, functions, locs, order>>

\* Period, 12
WritePeriod ==
    /\ pc = "period"
    /\ buf' = Append(buf, [field |-> 12, value |-> 1])
    /\ Goto(After(pc))
    /\ UNCHANGED <<untouched, strtab, functions, locs, nGet, order>>

\* Tick unit, 15
WriteTickUnit ==
    /\ pc = "tickUnit"
    /\ LET t == Get(strtab, "nanoseconds")
       IN  /\ buf' = Append(buf, [field |-> 15, value |-> t.id])
           /\ strtab' = t.tab
           /\ nGet' = nGet + 1
    /\ Goto(After(pc))
    /\ UNCHANGED <<untouched, functions, locs, order>>

\* writeString
StringEntry(s) == [field |-> 6, s |-> s]

\* String table, 6: writeString("")
WriteEmptyString ==
    /\ pc = "emptyString"
    /\ buf' = Append(buf, StringEntry(""))
    /\ Goto(After(pc))
    /\ UNCHANGED <<untouched, strtab, functions, locs, nGet, order>>

\* every order in which a range can visit the keys S
RECURSIVE Orders(_)
Orders(S) ==
    IF S = {} THEN {<<>>}
    ELSE UNION {{<<x>> \o p : p \in Orders(S \ {x})} : x \in S}

\* String table, 6: the range over strtab, one writeString per key
WriteStrings ==
    /\ pc = "stringTable"
    /\ \E keys \in Orders(DOMAIN strtab) :
          /\ buf' = buf \o [i \in DOMAIN keys |-> StringEntry(keys[i])]
          /\ order' = order \o keys
    /\ Goto(After(pc))
    /\ UNCHANGED <<untouched, strtab, functions, locs, nGet>>

\* a loop has run out of elements
LoopDone ==
    /\ \/ pc = "aggregate" /\ ei = Len(Events)
       \/ pc = "labelSet" /\ li = Len(labelSets)
       \/ pc \in {"sample", "function", "location"} /\ rest = {}
    /\ Goto(After(pc))
    /\ UNCHANGED <<untouched, strtab, functions, locs, buf, nGet, order>>

\* out.Write(b)
WriteOut ==
    /\ pc = "write"
    /\ out' = buf
    /\ Goto(After(pc))
    /\ UNCHANGED <<inputs, ei, info, labelSetIDs, labelSets, run, prevOut,
                   prevOrder, strtab, functions, locs, buf, nGet, order>>

\* ToPprof is called once more on the same ParseResult, start and stop; the
\* locals declared at the top of the function start empty, the others are
\* created by their own statements (NewBuffer, MakeFunctions, MakeLocs)
EncodeAgain ==
    /\ pc = "done"
    /\ run = 1
    /\ run' = 2
    /\ prevOut' = out
    /\ prevOrder' = order
    /\ pc' = "aggregate"
    /\ ei' = 0
    /\ info' = EmptyMap
    /\ labelSetIDs' = EmptyMap
    /\ labelSets' = <<>>
    /\ li' = 0
    /\ rest' = {}
    /\ out' = <<>>
    /\ nGet' = 0
    /\ order' = <<>>
    /\ UNCHANGED <<inputs, strtab, functions, locs, buf>>

----------------------------------------------------------------------------
(* Inputs *)

Gs == {1, 7, 15}
Tss == {10, 20}
StkIDs == {1, 2}

SampleEvents ==
    [Type : {EvCPUSample}, G : Gs, Ts : Tss, StkID : StkIDs]

OtherEvents ==
    [Type : {EvGoStart}, G : {7}, Ts : {20}, StkID : StkIDs]

Fresh ==
    /\ pc = "aggregate"
    /\ ei = 0
    /\ info = EmptyMap
    /\ labelSetIDs = EmptyMap
    /\ labelSets = <<>>
    /\ strtab = EmptyMap
    /\ functions = EmptyMap
    /\ locs = {}
    /\ li = 0
    /\ rest = {}
    /\ buf = <<>>
    /\ out = <<>>
    /\ nGet = 0
    /\ order = <<>>
    /\ run = 1
    /\ prevOut = <<>>
    /\ prevOrder = <<>>

InitAgg ==
    /\ Events \in SeqsUpTo(SampleEvents \cup OtherEvents, MaxEvents)
    /\ Stacks = EmptyMap
    /\ start = 100
    /\ stop = 250
    /\ Fresh

NextAgg == AggregateEvent

\* the aggregation loop alone, over every short event stream
SpecAgg == InitAgg /\ [][NextAgg]_vars

\* frames: fa and fb have different functions whose name and file concatenate
\* to the same string; fc and fd share a program counter and differ in line
fa == [PC |-> 1, Fn |-> "a", File |-> "aa", Line |-> 5]
fb == [PC |-> 2, Fn |-> "aa", File |-> "a", Line |-> 6]
fc == [PC |-> 3, Fn |-> "a", File |-> "a", Line |-> 7]
fd == [PC |-> 3, Fn |-> "a", File |-> "a", Line |-> 8]

StackMaps ==
    {EmptyMap,
     (1 :> <<fa, fb>>),
     (1 :> <<fc>>) @@ (2 :> <<fd>>)}

EncEvents ==
    [Type : {EvCPUSample}, G : {7}, Ts : {10}, StkID : StkIDs]
    \cup [Type : {EvGoStart}, G : {7}, Ts : {20}, StkID : {1}]

Init ==
    /\ Events \in SeqsUpTo(EncEvents, MaxEncEvents)
    /\ Stacks \in StackMaps
    /\ start = 100
    /\ stop = 250
    /\ Fresh

Encode ==
    \/ AggregateEvent
    \/ NewBuffer
    \/ WriteValueType
    \/ WriteLabelSet
    \/ WriteSample
    \/ WriteMapping
    \/ MakeFunctions
    \/ WriteFunctions
    \/ MakeLocs
    \/ WriteLocations
    \/ WriteTimeNanos
    \/ WriteDurationNanos
    \/ WritePeriodType
    \/ WritePeriod
    \/ WriteTickUnit
    \/ WriteEmptyString
    \/ WriteStrings
    \/ LoopDone
    \/ WriteOut

Next == Encode

\* one call of ToPprof
Spec == Init /\ [][Next]_vars

\* frames whose names and files are one string
ft == [PC |-> 1, Fn |-> "a", File |-> "a", Line |-> 5]
fu == [PC |-> 2, Fn |-> "a", File |-> "b", Line |-> 6]

TwiceInputs ==
    {[Events |-> <<>>, Stacks |-> (1 :> <<ft>>) @@ (2 :> <<fu>>)],
     [Events |-> <<[Type |-> EvCPUSample, G |-> 7, Ts |-> 10, StkID |-> 1],
                   [Type |-> EvCPUSample, G |-> 7, Ts |-> 20, StkID |-> 2]>>,
      Stacks |-> EmptyMap]}

InitTwice ==
    /\ \E in \in TwiceInputs : Events = in.Events /\ Stacks = in.Stacks
    /\ start = 100
    /\ stop = 250
    /\ Fresh

NextTwice == Encode \/ EncodeAgain

\* two calls of ToPprof, one after the other, on the same arguments
SpecTwice == InitTwice /\ [][NextTwice]_vars

----------------------------------------------------------------------------
(* Properties of the aggregation loop *)

\* indices, in stream order, of the sample events among the first n events
SampleIdx(n) ==
    SelectSeq([i \in 1..n |-> i], LAMBDA i : Events[i].Type = EvCPUSample)

\* the same, for the sample events of stack k
SampleIdxOf(k, n) ==
    SelectSeq([i \in 1..n |-> i],
              LAMBDA i : Events[i].Type = EvCPUSample /\ Events[i].StkID = k)

\* 0-based first-encounter rank of goroutine g among the sample events
RankOfG(g) ==
    LET first == CHOOSE i \in 1..Len(Events) :
                    /\ Events[i].Type = EvCPUSample /\ Events[i].G = g
                    /\ \A j \in 1..(i - 1) :
                          ~(Events[j].Type = EvCPUSample /\ Events[j].G = g)
    IN  Cardinality({Events[j].G : j \in {x \in 1..(first - 1) :
                                            Events[x].Type = EvCPUSample}})

AggregatesConsistent ==
    \A k \in DOMAIN info :
        LET bd == info[k].Breakdown
        IN  /\ info[k].Value = SumSeq(bd.Values)
            /\ Len(bd.Timestamps) = Len(bd.Values)
            /\ Len(bd.Values) = Len(bd.LabelSets)
            /\ Len(bd.Values) = Len(SampleIdxOf(k, ei))

\* C2: after every prefix of the event stream each aggregate has Value equal
\* to the sum of its breakdown values and three breakdown lists of one common
\* length, the number of sample events of that stack seen so far; an event
\* of any other type changes neither the aggregates nor the label sets.
C2_AggregateInvariant ==
    [][/\ AggregatesConsistent'
       /\ (pc = "aggregate" /\ ei < Len(Events)
             /\ Events[ei + 1].Type # EvCPUSample)
          => (info' = info /\ labelSets' = labelSets /\ labelSetIDs' = labelSetIDs)
      ]_vars

C2_Witness ==
    /\ ei = 3
    /\ Events[2].Type # EvCPUSample
    /\ \E k \in DOMAIN info : info[k].Value = 2

\* C6: the label-set id of a breakdown entry is the 0-based first-encounter
\* rank of its event's goroutine among the sample events; the label sets are
\* numbered 0, 1, 2, ... and there is one per distinct goroutine; two sample
\* events share a label-set id exactly when they share a goroutine.
C6_LabelSetRank ==
    /\ \A i \in 1..Len(labelSets) : labelSets[i].ID = i - 1
    /\ Len(labelSets) =
          Cardinality({Events[SampleIdx(ei)[i]].G : i \in 1..Len(SampleIdx(ei))})
    /\ \A k \in DOMAIN info :
          \A j \in 1..Len(SampleIdxOf(k, ei)) :
              /\ j \in DOMAIN info[k].Breakdown.LabelSets
              /\ info[k].Breakdown.LabelSets[j] =
                    RankOfG(Events[SampleIdxOf(k, ei)[j]].G)
    /\ \A k1 \in DOMAIN info, k2 \in DOMAIN info :
          \A j1 \in DOMAIN info[k1].Breakdown.LabelSets,
             j2 \in DOMAIN info[k2].Breakdown.LabelSets :
              (info[k1].Breakdown.LabelSets[j1] = info[k2].Breakdown.LabelSets[j2])
              <=> (Events[SampleIdxOf(k1, ei)[j1]].G = Events[SampleIdxOf(k2, ei)[j2]].G)

\* three samples, two on one stack from different goroutines, the third on
\* another stack from the first goroutine again
C6_Witness ==
    /\ ei = 3
    /\ Len(labelSets) = 2
    /\ \E k1 \in DOMAIN info, k2 \in DOMAIN info :
          /\ k1 # k2
          /\ info[k1].Breakdown.LabelSets = <<0, 1>>
          /\ info[k2].Breakdown.LabelSets = <<0>>

\* C9: the k-th breakdown entry of a stack comes from the k-th sample event
\* of that stack in the stream: its timestamp is that event's Ts and its
\* value is 1, whatever the timestamps are.
C9_BreakdownOrder ==
    \A k \in DOMAIN info :
        /\ Len(info[k].Breakdown.Timestamps) = Len(SampleIdxOf(k, ei))
        /\ \A j \in 1..Len(SampleIdxOf(k, ei)) :
              /\ info[k].Breakdown.Timestamps[j] = Events[SampleIdxOf(k, ei)[j]].Ts
              /\ info[k].Breakdown.Values[j] = 1

\* a stack whose two samples arrive with decreasing timestamps
C9_Witness ==
    \E k \in DOMAIN info :
        /\ info[k].Breakdown.Timestamps = <<20, 10>>
        /\ ei = 3

----------------------------------------------------------------------------
(* Properties of the emitted artifact *)

Done == pc = "done"

\* the records of the artifact with field number f, in emission order
Emitted(f) == SelectSeq(out, LAMBDA r : r.field = f)

NoSampleEvent == \A i \in DOMAIN Events : Events[i].Type # EvCPUSample

AllFrames == UNION {Range(Stacks[k]) : k \in DOMAIN Stacks}

FixedLiterals == {"time", "ns", "nanoseconds"}

\* C1: the string table starts with the empty string and holds every
\* interned string exactly once, at position id + 1 (counting from 0).
C1_StringTableByID ==
    Done =>
        LET tab == Emitted(6)
        IN  /\ Len(tab) >= 1
            /\ tab[1].s = ""
            /\ \A s \in DOMAIN strtab :
                  {i \in DOMAIN tab : tab[i].s = s} = {strtab[s] + 2}

\* the (Fn, File) pairs of the frames of the stacks some aggregate refers to
ReferencedPairs ==
    {<<f.Fn, f.File>> :
        f \in UNION {Range(Stacks[k]) : k \in DOMAIN info \cap DOMAIN Stacks}}

\* C3: every (Fn, File) pair of a referenced stack has exactly one Function
\* record with that name and that file, and the Function ids are pairwise
\* distinct and at least 1.
C3_OneFunctionPerPair ==
    Done =>
        LET fs == Emitted(5)
        IN  /\ \A p \in ReferencedPairs :
                  Cardinality({i \in DOMAIN fs :
                                  /\ fs[i].name = Lookup(strtab, p[1], -1)
                                  /\ fs[i].filename = Lookup(strtab, p[2], -1)}) = 1
            /\ \A i \in DOMAIN fs : fs[i].id >= 1
            /\ \A i \in DOMAIN fs, j \in DOMAIN fs :
                  i # j => fs[i].id # fs[j].id

\* the stacks in the order the Location section visited them
LocationOrder ==
    SubSeq(order,
           Cardinality(DOMAIN info) + Cardinality(DOMAIN Stacks) + 1,
           Cardinality(DOMAIN info) + 2 * Cardinality(DOMAIN Stacks))

RECURSIVE FramesInOrder(_)
FramesInOrder(keys) ==
    IF keys = <<>> THEN <<>> ELSE Stacks[Head(keys)] \o FramesInOrder(Tail(keys))

\* the first frame the Location section visited for program counter p
FirstFrame(p) ==
    LET fr == FramesInOrder(LocationOrder)
        i == CHOOSE i \in DOMAIN fr :
                fr[i].PC = p /\ \A j \in 1..(i - 1) : fr[j].PC # p
    IN  fr[i]

\* C4: every program counter of parsed.Stacks has exactly one Location
\* record, and its function id is the id of the Function record that carries
\* the Fn and File of the first frame visited for that program counter.
C4_LocationFunction ==
    Done =>
        \A p \in {f.PC : f \in AllFrames} :
            LET ls == SelectSeq(out, LAMBDA r : r.field = 4 /\ r.id = p)
                f == FirstFrame(p)
            IN  /\ Len(ls) = 1
                /\ ls[1].line.line = f.Line
                /\ \E i \in DOMAIN Emitted(5) :
                      /\ Emitted(5)[i].id = ls[1].line.function
                      /\ Emitted(5)[i].name = Lookup(strtab, f.Fn, -1)
                      /\ Emitted(5)[i].filename = Lookup(strtab, f.File, -1)

StringsEmitted == {Emitted(6)[i].s : i \in DOMAIN Emitted(6)}

FieldOrder == <<1, 16, 2, 3, 5, 4, 9, 10, 11, 12, 15, 6>>

Repeated == {16, 2, 5, 4, 6}

Fields == Range(FieldOrder)

\* the place of each field number in FieldOrder
FieldRank ==
    [f \in Fields |-> CHOOSE i \in DOMAIN FieldOrder : FieldOrder[i] = f]

\* b is in field order: it is enough to compare neighbours
InFieldOrder(b) ==
    /\ \A i \in DOMAIN b : b[i].field \in Fields
    /\ \A i \in 1..(Len(b) - 1) :
          /\ FieldRank[b[i].field] <= FieldRank[b[i + 1].field]
          /\ b[i].field = b[i + 1].field => b[i].field \in Repeated
          /\ (b[i].field = 16 /\ b[i + 1].field = 16) => b[i].id < b[i + 1].id

AllSectionsWritten(b) ==
    \A f \in Fields \ {16, 2, 5, 4} : \E i \in DOMAIN b : b[i].field = f

\* C7: the records are appended in the field order 1, 16*, 2*, 3, 5*, 4*, 9,
\* 10, 11, 12, 15, 6*, the LabelSet records by ascending id; StrTab.Get is
\* never called once a string-table entry has been appended; and the artifact
\* handed to the writer holds every unstarred section.
C7_SectionOrder ==
    [][/\ InFieldOrder(buf')
       /\ (\E i \in DOMAIN buf : buf[i].field = 6) => nGet' = nGet
       /\ pc' = "done" => (out' = buf' /\ AllSectionsWritten(out'))
      ]_vars

C7_Witness ==
    /\ Done
    /\ Len(Emitted(16)) >= 1
    /\ Len(Emitted(2)) >= 2
    /\ Len(Emitted(5)) >= 1
    /\ Len(Emitted(4)) >= 2
    /\ Len(Emitted(6)) >= 8

\* C10: every location id of a Sample record has exactly one Location record,
\* every label-set id of a breakdown has exactly one LabelSet record, and a
\* sampled stack that parsed.Stacks lacks still has its Sample record, with
\* its value and breakdown and no locations.
C10_ReferentialIntegrity ==
    Done =>
        /\ Len(Emitted(2)) = Cardinality(DOMAIN info)
        /\ \A i \in DOMAIN Emitted(2) :
              /\ \A l \in Range(Emitted(2)[i].locations) :
                    Len(SelectSeq(out, LAMBDA r : r.field = 4 /\ r.id = l)) = 1
              /\ \A l \in Range(Emitted(2)[i].breakdown.labelSets) :
                    Len(SelectSeq(out, LAMBDA r : r.field = 16 /\ r.id = l)) = 1
        /\ \A e \in DOMAIN Events :
              (Events[e].Type = EvCPUSample /\ Events[e].StkID \notin DOMAIN Stacks)
              => \E i \in DOMAIN Emitted(2) :
                    /\ Emitted(2)[i].locations = <<>>
                    /\ Emitted(2)[i].value = Len(SampleIdxOf(Events[e].StkID, Len(Events)))
                    /\ Emitted(2)[i].breakdown.timestamps =
                          [j \in 1..Len(SampleIdxOf(Events[e].StkID, Len(Events))) |->
                              Events[SampleIdxOf(Events[e].StkID, Len(Events))[j]].Ts]
                    /\ Len(Emitted(2)[i].breakdown.labelSets) = Emitted(2)[i].value

\* one sample on a stack with frames, one on a stack parsed.Stacks lacks
C10_Witness ==
    /\ Done
    /\ \E i \in DOMAIN Emitted(2) : Emitted(2)[i].locations = <<>>
    /\ \E i \in DOMAIN Emitted(2) : Emitted(2)[i].locations # <<>>
    /\ \E e \in DOMAIN Events :
          Events[e].Type = EvCPUSample /\ Events[e].StkID \notin DOMAIN Stacks

\* C8 as stated: the second call produces the artifact of the first.
C8_SameArtifact ==
    (run = 2 /\ Done) => out = prevOut

\* C8 as amended: the second call produces the artifact of the first whenever
\* its map ranges visit the keys in the order the first call's did.
C8_SameArtifactGivenOrder ==
    (run = 2 /\ Done /\ order = prevOrder) => out = prevOut

C8_Witness ==
    /\ run = 2
    /\ Done
    /\ order = prevOrder
    /\ out = prevOut
    /\ Len(Emitted(5)) = 2
    /\ Len(Emitted(4)) = 2

====
